---- MODULE Spec2Model ----
(***************************************************************************)
(* Model of src/src/icd10.py: the two concurrent fetch-and-concat runners  *)
(* ICD10.multi_thread (ThreadPool.map) and ICD10.multi_thread2             *)
(* (ThreadPoolExecutor.submit + as_completed), driven through their two    *)
(* call sites ICD10.blocks and ICD10.categories with the per-key fetch     *)
(* functions __blocks and __categories.                                    *)
(***************************************************************************)
EXTENDS Integers, Sequences, FiniteSets, TLC

\* ------------------------------------------------------------------ bounds

\* longest list of codes handed to blocks() / categories()
MaxLen == 3
\* most child items (li.Blocklist1 elements, JSON children) the site lists under a code
MaxChildren == 2
\* largest non-default value of self.max_processes that is tried
MaxCap == 2

\* the codes a caller may pass; a code may occur several times in the list
Keys == {"I", "II"}

\* self.max_processes as set by __init__
DefaultMaxProcesses == 20

\* values of self.max_processes (a plain attribute the caller may set)
Caps == (1..MaxCap) \cup {DefaultMaxProcesses}

\* ------------------------------------------------------------ environment

\* What the remote site does on a request for one code: the request never
\* answers, requests.get raises, or an HTTP response arrives whose body
\* lists `items` child items.  A non-200 response lists none.
Responses ==
    {[kind |-> "hang", status |-> 0, items |-> 0],
     [kind |-> "exc", status |-> 0, items |-> 0],
     [kind |-> "http", status |-> 404, items |-> 0]}
    \cup {[kind |-> "http", status |-> 200, items |-> n] : n \in 0..MaxChildren}

Reason(status) == IF status = 200 THEN "OK" ELSE "Not Found"

\* all sequences over S of length 0..n
RECURSIVE SeqsUpTo(_, _)
SeqsUpTo(S, n) ==
    IF n = 0 THEN {<<>>}
    ELSE LET shorter == SeqsUpTo(S, n - 1)
         IN  shorter \cup {Append(s, x) : s \in {t \in shorter : Len(t) = n - 1}, x \in S}

VARIABLES
    op,             \* the public method called: "blocks" or "categories"
    values,         \* its argument, the list of codes
    max_processes,  \* self.max_processes
    site,           \* the remote site: code -> response
    pc,             \* "init", "running", "collect", "returned", "raised"
    submitted,      \* number of tasks handed to the pool so far
    st,             \* per position of values: state of its fetch invocation
    calls,          \* per position: how many times func was invoked for it
    order,          \* positions in the order their fetch invocations ended
    error,          \* the exception stored by MapResult / raised to the caller
    result          \* the frame returned to the caller

vars == <<op, values, max_processes, site, pc, submitted, st, calls, order, error, result>>

\* An exception as Python raises it: its class, no __cause__, and no
\* attribute naming a code.  NoError stands for "no exception".
Exc(type) == [type |-> type, cause |-> "none", key |-> "none"]

NoError == Exc("none")

\* ------------------------------------------------------- pure functions

Returned(recs) == [tag |-> "return", exc |-> NoError, records |-> recs]
Raised(e) == [tag |-> "raise", exc |-> e, records |-> <<>>]
Hangs == [tag |-> "hang", exc |-> NoError, records |-> <<>>]

\* pd.concat that loses the last frame of the list
RECURSIVE FlattenDropLast(_)
FlattenDropLast(frames) ==
    IF Len(frames) <= 1 THEN <<>> ELSE Head(frames) \o FlattenDropLast(Tail(frames))

RECURSIVE Flatten(_)
Flatten(frames) ==
    IF Len(frames) = 0 THEN <<>> ELSE Head(frames) \o Flatten(Tail(frames))

\* a concat that answers an empty list with an empty frame
PdConcatEmptyOk(frames) == Returned(Flatten(frames))

\* pd.concat(objs): raises ValueError("No objects to concatenate") on an
\* empty list, otherwise the rows of the frames in list order
PdConcat(frames) ==
    IF Len(frames) = 0 THEN Raised(Exc("ValueError")) ELSE Returned(Flatten(frames))

\* one-row frame pd.DataFrame(data=data, index=[0])
Row(parent, code, description) ==
    <<[parent |-> parent, code |-> code, description |-> description]>>

\* ICD10.__blocks: the status of the response is not looked at
Blocks(chapter, resp) ==
    IF resp.kind = "hang" THEN Hangs
    ELSE IF resp.kind = "exc" THEN Raised(Exc("ConnectionError"))
    ELSE PdConcat([j \in 1..resp.items |-> Row(chapter, j, "label")])

\* __categories with response.raise_for_status() in place of the in-band record
CategoriesRaiseForStatus(block, resp) ==
    IF resp.kind = "hang" THEN Hangs
    ELSE IF resp.kind = "exc" THEN Raised(Exc("ConnectionError"))
    ELSE IF resp.status # 200
         THEN Raised(Exc("HTTPError"))
         ELSE PdConcat([j \in 1..resp.items |-> Row(block, j, "label")])

\* ICD10.__categories
Categories(block, resp) ==
    IF resp.kind = "hang" THEN Hangs
    ELSE IF resp.kind = "exc" THEN Raised(Exc("ConnectionError"))
    ELSE IF resp.status # 200
         THEN PdConcat(<<Row(block, resp.status, Reason(resp.status))>>)
         ELSE PdConcat([j \in 1..resp.items |-> Row(block, j, "label")])

\* ICD10.blocks runs __blocks under multi_thread,
\* ICD10.categories runs __categories under multi_thread2
Runner == IF op = "blocks" THEN "multi_thread" ELSE "multi_thread2"

Func(key) == IF op = "blocks" THEN Blocks(key, site[key]) ELSE Categories(key, site[key])

N == Len(values)

Min(a, b) == IF a < b THEN a ELSE b

\* a pool as large as the list, whatever self.max_processes says
ProcessesUncapped(len, cap) == len

\* multi_thread: processes = min(len(values), self.max_processes)
Processes(len, cap) == Min(len, cap)

\* number of worker threads that may run func at the same time
Workers ==
    IF Runner = "multi_thread" THEN Processes(N, max_processes) ELSE max_processes

\* Pool._map_async: chunksize, extra = divmod(len(iterable), len(self._pool) * 4)
Chunksize ==
    IF Runner = "multi_thread" /\ Workers >= 1
    THEN LET q == N \div (Workers * 4)
             r == N % (Workers * 4)
         IN  IF r # 0 THEN q + 1 ELSE q
    ELSE 1

\* the chunking loses the last chunk
NumTasksShort == IF N = 0 THEN 0 ELSE (N - 1) \div Chunksize

NumTasks == IF N = 0 THEN 0 ELSE ((N - 1) \div Chunksize) + 1

\* positions of values that task t (a chunk) covers
TaskItems(t) == {i \in 1..N : (t - 1) * Chunksize < i /\ i <= t * Chunksize}

First(t) == (t - 1) * Chunksize + 1

TaskOf(i) == ((i - 1) \div Chunksize) + 1

Ended(i) == st[i] \in {"returned", "raised", "skipped"}

TaskDone(t) == \A i \in TaskItems(t) : Ended(i)

AllDone == \A t \in 1..NumTasks : TaskDone(t)

InFlight == Cardinality({i \in 1..N : st[i] = "running"})

\* ------------------------------------------------------------------ Init

Init ==
    /\ op \in {"blocks", "categories"}
    /\ values \in SeqsUpTo(Keys, MaxLen)
    /\ max_processes \in Caps
    /\ site \in [Keys -> Responses]
    /\ pc = "init"
    /\ submitted = 0
    /\ st = [i \in 1..Len(values) |-> "queued"]
    /\ calls = [i \in 1..Len(values) |-> 0]
    /\ order = <<>>
    /\ error = NoError
    /\ result = <<>>

\* --------------------------------------------------------------- actions

\* Entry into multi_thread / multi_thread2 up to the point where the pool
\* exists.  ThreadPool(processes=0) raises ValueError; pool.map hands all
\* chunks to the pool at once.  ThreadPoolExecutor is created empty.
Call ==
    /\ pc = "init"
    /\ IF Runner = "multi_thread"
       THEN IF Processes(N, max_processes) < 1
            THEN /\ pc' = "raised"
                 /\ error' = Exc("ValueError")
                 /\ UNCHANGED submitted
            ELSE /\ pc' = "running"
                 /\ submitted' = NumTasks
                 /\ UNCHANGED error
       ELSE /\ pc' = "running"
            /\ submitted' = 0
            /\ UNCHANGED error
    /\ UNCHANGED <<op, values, max_processes, site, st, calls, order, result>>

\* multi_thread2: one executor.submit(func, value) of the for loop
Submit ==
    /\ pc = "running"
    /\ Runner = "multi_thread2"
    /\ submitted < N
    /\ submitted' = submitted + 1
    /\ UNCHANGED <<op, values, max_processes, site, pc, st, calls, order, error, result>>

\* a free worker thread takes the oldest waiting task and calls func on its
\* first value
StartTask ==
    /\ pc = "running"
    /\ InFlight < Workers
    /\ \E t \in 1..submitted :
          /\ st[First(t)] = "queued"
          /\ \A u \in 1..(t - 1) : st[First(u)] # "queued"
          /\ st' = [st EXCEPT ![First(t)] = "running"]
          /\ calls' = [calls EXCEPT ![First(t)] = @ + 1]
    /\ UNCHANGED <<op, values, max_processes, site, pc, submitted, order, error, result>>

\* func(values[i]) returns; the worker goes on with the next value of the
\* same chunk, if any (mapstar: list(map(func, chunk)))
FetchReturn(i) ==
    /\ st[i] = "running"
    /\ Func(values[i]).tag = "return"
    /\ IF i + 1 \in TaskItems(TaskOf(i))
       THEN /\ st' = [st EXCEPT ![i] = "returned", ![i + 1] = "running"]
            /\ calls' = [calls EXCEPT ![i + 1] = @ + 1]
       ELSE /\ st' = [st EXCEPT ![i] = "returned"]
            /\ UNCHANGED calls
    /\ order' = Append(order, i)
    /\ UNCHANGED <<op, values, max_processes, site, pc, submitted, error, result>>

\* func(values[i]) raises; the rest of its chunk is never fetched.
\* MapResult._set keeps only the first exception; a Future keeps its own.
FetchRaise(i) ==
    /\ st[i] = "running"
    /\ Func(values[i]).tag = "raise"
    /\ st' = [j \in 1..N |->
                IF j = i THEN "raised"
                ELSE IF j \in TaskItems(TaskOf(i)) /\ j > i THEN "skipped"
                ELSE st[j]]
    /\ order' = Append(order, i)
    /\ error' = IF Runner = "multi_thread" /\ error = NoError
                THEN Func(values[i]).exc
                ELSE error
    /\ UNCHANGED <<op, values, max_processes, site, pc, submitted, calls, result>>

\* only the values that found a worker at once are collected
MapValueFirstRound == [i \in 1..Min(N, max_processes) |-> Func(values[i]).records]

\* the frames in the order in which the fetches ended (imap_unordered)
MapValueCompletionOrder == [k \in 1..N |-> Func(values[order[k]]).records]

\* the frames pool.map returns: one per value, in the order of values
MapValue == [i \in 1..N |-> Func(values[i]).records]

\* a map that drops the failed values and returns what the others gave
MapGetBestEffort ==
    /\ pc = "running"
    /\ Runner = "multi_thread"
    /\ AllDone
    /\ pc' = "returned"
    /\ result' = Flatten([i \in 1..N |-> Func(values[i]).records])
    /\ UNCHANGED <<op, values, max_processes, site, submitted, st, calls, order, error>>

\* a map that raises at the first failed chunk without waiting for the others
MapGetEarly ==
    /\ pc = "running"
    /\ Runner = "multi_thread"
    /\ AllDone \/ error # NoError
    /\ IF error # NoError
       THEN /\ pc' = "raised"
            /\ UNCHANGED <<error, result>>
       ELSE /\ pc' = "returned"
            /\ result' = Flatten([i \in 1..N |-> Func(values[i]).records])
            /\ UNCHANGED error
    /\ UNCHANGED <<op, values, max_processes, site, submitted, st, calls, order>>

\* multi_thread: pool.map returns or raises once every chunk has ended, then
\* pd.concat(results)
MapGet ==
    /\ pc = "running"
    /\ Runner = "multi_thread"
    /\ AllDone
    /\ IF error # NoError
       THEN /\ pc' = "raised"
            /\ UNCHANGED <<error, result>>
       ELSE LET c == PdConcat(MapValue)
            IN  IF c.tag = "return"
                THEN /\ pc' = "returned"
                     /\ result' = c.records
                     /\ UNCHANGED error
                ELSE /\ pc' = "raised"
                     /\ error' = c.exc
                     /\ UNCHANGED result
    /\ UNCHANGED <<op, values, max_processes, site, submitted, st, calls, order>>

\* multi_thread2: leaving the with block is executor.shutdown(wait=True)
Shutdown ==
    /\ pc = "running"
    /\ Runner = "multi_thread2"
    /\ submitted = N
    /\ AllDone
    /\ pc' = "collect"
    /\ UNCHANGED <<op, values, max_processes, site, submitted, st, calls, order, error, result>>

\* positions of p (an order of the futures) before the first one whose
\* task.result() raises
RaisingAt(p) == {k \in 1..N : Func(values[p[k]]).tag = "raise"}

FirstRaising(p) == CHOOSE k \in RaisingAt(p) : \A l \in RaisingAt(p) : k <= l

\* multi_thread2: the loop over as_completed(processes) and pd.concat.
\* Every future has ended by now, so as_completed yields them in the
\* iteration order of set(processes): some order p of the positions.
AsCompleted ==
    /\ pc = "collect"
    /\ \E p \in Permutations(1..N) :
          IF RaisingAt(p) # {}
          THEN /\ pc' = "raised"
               /\ error' = Func(values[p[FirstRaising(p)]]).exc
               /\ UNCHANGED result
          ELSE LET c == PdConcat([k \in 1..N |-> Func(values[p[k]]).records])
               IN  IF c.tag = "return"
                   THEN /\ pc' = "returned"
                        /\ result' = c.records
                        /\ UNCHANGED error
                   ELSE /\ pc' = "raised"
                        /\ error' = c.exc
                        /\ UNCHANGED result
    /\ UNCHANGED <<op, values, max_processes, site, submitted, st, calls, order>>

Next ==
    \/ Call
    \/ Submit
    \/ StartTask
    \/ \E i \in 1..N : FetchReturn(i)
    \/ \E i \in 1..N : FetchRaise(i)
    \/ MapGet
    \/ Shutdown
    \/ AsCompleted

Spec == Init /\ [][Next]_vars

\* threads that can run do run: the run goes on while a step is possible
FairSpec == Spec /\ WF_vars(Next)

\* ---------------------------------------------------------------- claims

Range(s) == {s[i] : i \in DOMAIN s}

Count(s, x) == Cardinality({i \in DOMAIN s : s[i] = x})

RECURSIVE Sum(_, _)
Sum(f, n) == IF n = 0 THEN 0 ELSE f[n] + Sum(f, n - 1)

\* what func gives for position i of values
Outcome(i) == Func(values[i])

Expected(i) == Outcome(i).records

\* the records of the positions p[1], ..., p[k], one position after the other
RECURSIVE Join(_, _)
Join(p, k) == IF k = 0 THEN <<>> ELSE Join(p, k - 1) \o Expected(p[k])

AllRecords == UNION {Range(Expected(i)) : i \in 1..N}

AllReturn == \A i \in 1..N : Outcome(i).tag = "return"

Finished == pc \in {"returned", "raised"}

\* a fetch that was started and whose request never answers
Hung(i) == st[i] = "running" /\ Outcome(i).tag = "hang"

\* C1: when func returns for every key of a non-empty list, func has been
\* invoked exactly once for every position of the list by the time the run
\* ends, so a key is fetched as often as it occurs; at no time has a position
\* been fetched twice.
C1_FetchedOncePerPosition ==
    /\ \A i \in 1..N : calls[i] <= 1
    /\ (N > 0 /\ AllReturn /\ Finished) =>
          /\ \A i \in 1..N : calls[i] = 1
          /\ \A k \in Keys :
                Sum([i \in 1..N |-> IF values[i] = k THEN calls[i] ELSE 0], N)
                   = Count(values, k)

\* a run over a list with a repeated key has returned
C1_Witness ==
    /\ pc = "returned"
    /\ N >= 2
    /\ \E i, j \in 1..N : i # j /\ values[i] = values[j]

\* C2: for a non-empty list, a func that returns for every key and a cap in
\* 1..len(values), the run does not fail, and the frame it returns holds
\* every record as often as the fetches gave it: its length is the sum of
\* the lengths of the fetched frames.
C2_ResultIsConcatOfFetches ==
    (N > 0 /\ AllReturn /\ max_processes \in 1..N) =>
       /\ pc # "raised"
       /\ pc = "returned" =>
             /\ Len(result) = Sum([i \in 1..N |-> Len(Expected(i))], N)
             /\ \A x \in Range(result) \cup AllRecords :
                   Count(result, x) = Sum([i \in 1..N |-> Count(Expected(i), x)], N)

\* three keys on two workers, one of them with more than one record
C2_Witness ==
    /\ pc = "returned"
    /\ N = 3
    /\ max_processes = 2
    /\ Len(result) > N

\* the failure the spec describes: a WorkerError naming the key and its cause
WorkerError(key, cause) == [type |-> "WorkerError", cause |-> cause, key |-> key]

\* the keys of values whose fetch raises
RaisingKeys == {values[i] : i \in {j \in 1..N : Outcome(j).tag = "raise"}}

OneKeyRaises == N > 1 /\ Cardinality(RaisingKeys) = 1

RaisingKey == CHOOSE k \in RaisingKeys : TRUE

\* C3 as stated: when func raises for exactly one key of a list of more than
\* one, the run fails with a WorkerError that names that key and carries
\* the exception, and returns no frame.
C3_WorkerErrorNamesKey ==
    OneKeyRaises =>
       /\ pc # "returned"
       /\ pc = "raised" => error = WorkerError(RaisingKey, Func(RaisingKey).exc.type)

\* C3 amended: when func raises for exactly one key of a list of more than
\* one, the run never returns a frame, and when it fails it fails with the
\* very exception that key's fetch raised, unwrapped.
C3_FailsWithFetchException ==
    OneKeyRaises =>
       /\ pc # "returned"
       /\ result = <<>>
       /\ pc = "raised" => error = Func(RaisingKey).exc

\* a run failed although the fetch of another key had returned records
C3_Witness ==
    /\ OneKeyRaises
    /\ pc = "raised"
    /\ \E i \in 1..N : st[i] = "returned" /\ Len(Expected(i)) > 0

\* the site answers 200 for the key and lists no child item
ZeroChildren(key) ==
    site[key].kind = "http" /\ site[key].status = 200 /\ site[key].items = 0

\* C4: a key for which the site lists no child item gives no record: its
\* fetch does not raise, and when the fetches of all other keys return the
\* run does not fail.
C4_ZeroChildrenGiveNoRecords ==
    (/\ \E i \in 1..N : ZeroChildren(values[i])
     /\ \A i \in 1..N : ZeroChildren(values[i]) \/ Outcome(i).tag = "return")
    => /\ \A i \in 1..N : st[i] # "raised"
       /\ pc # "raised"

\* the record __categories gives for a response that is not 200
FailedRecord(key) ==
    [parent |-> key, code |-> site[key].status, description |-> Reason(site[key].status)]

BadStatus(key) == site[key].kind = "http" /\ site[key].status # 200

GoodAnswer(key) == site[key].kind = "http" /\ site[key].status = 200 /\ site[key].items > 0

\* C5: in categories(), when the site answers some key with a status other
\* than 200 and every other key with children, the fetch of the failing key
\* returns exactly one record with the key, the status and the reason, the
\* run does not fail, and the returned frame holds that record and every
\* record of the other keys.
C5_BadStatusIsARecord ==
    (/\ op = "categories"
     /\ \E i \in 1..N : BadStatus(values[i])
     /\ \A i \in 1..N : BadStatus(values[i]) \/ GoodAnswer(values[i]))
    => /\ \A i \in 1..N : BadStatus(values[i]) =>
             Outcome(i) = Returned(<<FailedRecord(values[i])>>)
       /\ \A i \in 1..N : st[i] # "raised"
       /\ pc # "raised"
       /\ pc = "returned" =>
             /\ \A i \in 1..N : BadStatus(values[i]) =>
                   Count(result, FailedRecord(values[i])) = Count(values, values[i])
             /\ \A i \in 1..N : GoodAnswer(values[i]) =>
                   \A j \in 1..site[values[i]].items :
                      [parent |-> values[i], code |-> j, description |-> "label"]
                         \in Range(result)

\* categories() has returned for a list with a failing and a successful key
C5_Witness ==
    /\ op = "categories"
    /\ pc = "returned"
    /\ \E i, j \in 1..N : BadStatus(values[i]) /\ GoodAnswer(values[j])

\* C6: on an empty list the run never returns a frame, invokes no fetch,
\* and cannot end otherwise than by raising ValueError, under either runner.
C6_EmptyInputFails ==
    N = 0 =>
       /\ pc # "returned"
       /\ result = <<>>
       /\ order = <<>> /\ InFlight = 0
       /\ pc = "raised" => error = Exc("ValueError")
       /\ ~(ENABLED Next) => pc = "raised"

\* multi_thread2 has failed on an empty list
C6_Witness == N = 0 /\ pc = "raised" /\ Runner = "multi_thread2"

\* C7: whether the run returns, and the set of (key, record) pairs it
\* returns, are fixed by the list and by what func gives per key; neither
\* self.max_processes nor the schedule enters.
C7_PairsIndependentOfCap ==
    /\ (N > 0 /\ AllReturn) => pc # "raised"
    /\ (N = 0 \/ ~AllReturn) => pc # "returned"
    /\ pc = "returned" =>
          {<<r.parent, r>> : r \in Range(result)}
             = UNION {{<<values[i], r>> : r \in Range(Expected(i))} : i \in 1..N}

\* a run with fewer workers than keys has returned records of two keys
C7_Witness ==
    /\ pc = "returned"
    /\ max_processes < N
    /\ Cardinality({r.parent : r \in Range(result)}) = 2

\* C8: never more fetches in flight than min(len(values), max_processes)
\* under multi_thread, nor than max_processes under multi_thread2.
C8_InFlightBounded ==
    InFlight <= IF Runner = "multi_thread"
                THEN Min(N, max_processes)
                ELSE max_processes

\* every worker is busy while a submitted key waits for one
C8_Witness ==
    /\ pc = "running"
    /\ InFlight = max_processes
    /\ \E i \in 1..N : st[i] = "queued" /\ TaskOf(i) <= submitted

\* C9 as stated: the returned frame lists the keys' records in the order in
\* which their fetches ended.
C9_CompletionOrder ==
    (pc = "returned" /\ AllReturn) => result = Join(order, N)

\* C9 amended: a frame exists only once every fetch has returned;
\* multi_thread returns the records in the order of the input list whatever
\* the order of completion, and multi_thread2 returns each position's records
\* as one run of rows, the positions in some order.
C9_InputOrderOrSomeOrder ==
    /\ result # <<>> => pc = "returned"
    /\ pc = "returned" =>
          /\ \A i \in 1..N : st[i] = "returned"
          /\ Runner = "multi_thread" => result = Join([i \in 1..N |-> i], N)
          /\ Runner = "multi_thread2" =>
                \E p \in Permutations(1..N) : result = Join(p, N)

\* multi_thread has returned a frame whose order is not the order of completion
C9_Witness ==
    /\ pc = "returned"
    /\ Runner = "multi_thread"
    /\ result # Join(order, N)

\* C10: while a started fetch hangs the run neither returns nor raises,
\* whatever the other fetches did; and a run on a non-empty list whose
\* fetches all return does return, each position fetched and its records in
\* the frame.
C10_HangBlocksElseReturns ==
    /\ [](\A i \in 1..N : Hung(i) => ~Finished)
    /\ [](N > 0 /\ AllReturn =>
            <>(/\ pc = "returned"
               /\ \A i \in 1..N : calls[i] = 1 /\ st[i] = "returned"
               /\ AllRecords \subseteq Range(result)))

\* one fetch hangs, another has raised, nothing is left to do, and the run
\* has not ended
C10_Witness ==
    /\ \E i \in 1..N : Hung(i)
    /\ \E i \in 1..N : st[i] = "raised"
    /\ \A i \in 1..N : Hung(i) \/ Ended(i)
    /\ submitted = NumTasks
    /\ ~Finished

====
